---- MODULE Spec2Model ----
(***************************************************************************)
(* Model of geolocation.py: the loader, the background layer, the static   *)
(* scatter plot and heatmap, the interactive bokeh document with its       *)
(* recolouring callback, and the MAIN statement sequence.                  *)
(*                                                                         *)
(* Coordinates are whole degrees.  A table (pandas DataFrame) is a         *)
(* sequence of rows; each row carries its index label `idx` (the RangeIndex*)
(* label read_csv gives it, i.e. its zero-based position in the file).     *)
(***************************************************************************)
EXTENDS Integers, Sequences, FiniteSets, TLC

VARIABLES
    csv,            \* the file at DATA_FILE: NoFile or File(rows)
    df,             \* the module-level table df (<<>> before loadData)
    todo,           \* the top-level statements still to run
    done,           \* the top-level statements attempted so far
    err,            \* "none", or the uncaught exception that ended the run
    outDirExists,   \* os.path.exists(OUT_DIR)
    files,          \* the file names present in OUT_DIR
    lazyMap,        \* TRUE: map() is lazy (Python 3); FALSE: it builds a list
    markers,        \* the markers scattered on the current matplotlib figure
    bg,             \* the last Basemap that backgroundLayer constructed
    tileRequests,   \* number of arcgisimage requests sent
    density,        \* the last histogram the heatmap computed
    source,         \* the ColumnDataSource of the saved bokeh document
    active          \* RadioButtonGroup.active of the saved document

vars == <<csv, df, todo, done, err, outDirExists, files, lazyMap, markers,
          bg, tileRequests, density, source, active>>

---------------------------------------------------------------------------
(* Bounds of the model *)

MaxRecs == 2        \* longest table handed directly to a renderer
MaxCoord == 2       \* coordinates of such tables range over 0..MaxCoord
MaxExtraRows == 1   \* file lengths range up to 759 + MaxExtraRows

(* Program constants *)

DROP_A == 222       \* first positional index dropped by loadData
DROP_B == 758       \* second positional index dropped by loadData
NUM_EDGES == 500    \* number of bin edges per axis in heatmap
db == 1             \* bin padding in heatmap

---------------------------------------------------------------------------
(* Generic helpers *)

Range(s) == {s[i] : i \in DOMAIN s}

MaxOf(s) == CHOOSE x \in Range(s) : \A y \in Range(s) : y <= x

MinOf(s) == CHOOSE x \in Range(s) : \A y \in Range(s) : x <= y

\* the element of a one-element set; {e(v) : v \in {a}} evaluates a once
Only(S) == CHOOSE x \in S : TRUE

---------------------------------------------------------------------------
(* Data *)

\* the file at DATA_FILE: absent, or present with the rows it holds
NoFile == [exists |-> FALSE, rows |-> <<>>]

File(rows) == [exists |-> TRUE, rows |-> rows]

None == "None"

Row(i, c) ==
    [idx |-> i, lat |-> c.lat, long |-> c.long, OFFENSE |-> c.OFFENSE,
     METHOD |-> c.METHOD, START_DATE |-> c.START_DATE]

Content(la, lo, o, m) ==
    [lat |-> la, long |-> lo, OFFENSE |-> o, METHOD |-> m,
     START_DATE |-> "2016-01-01"]

\* read_csv labels the rows 0, 1, 2, ... in file order
WithIndex(t) == [i \in 1..Len(t) |-> Row(i - 1, t[i])]

---------------------------------------------------------------------------
(* loadData *)

\* variant: the two positions taken one row too far
loadDataOffByOne(file) ==
    IF ~file.exists THEN [err |-> "IOError", df |-> <<>>]
    ELSE IF Len(file.rows) <= DROP_B + 1
    THEN [err |-> "IndexError", df |-> <<>>]
    ELSE LET labels == {file.rows[DROP_A + 2].idx, file.rows[DROP_B + 2].idx}
         IN  [err |-> "none",
              df |-> SelectSeq(file.rows, LAMBDA r : r.idx \notin labels)]

\* pd.read_csv (IOError when the file is absent), then
\* df.drop(df.index[[222,758]], inplace=True): df.index[[...]] takes the
\* labels at the two positions (IndexError when a position is out of
\* bounds), drop removes the rows carrying those labels.
loadData(file) ==
    IF ~file.exists THEN [err |-> "IOError", df |-> <<>>]
    ELSE IF Len(file.rows) <= DROP_B
    THEN [err |-> "IndexError", df |-> <<>>]
    ELSE LET labels == {file.rows[DROP_A + 1].idx, file.rows[DROP_B + 1].idx}
         IN  [err |-> "none",
              df |-> SelectSeq(file.rows, LAMBDA r : r.idx \notin labels)]

---------------------------------------------------------------------------
(* backgroundLayer *)

NoMap == [kind |-> "none"]

Lons(d) == [i \in 1..Len(d) |-> d[i].long]

Lats(d) == [i \in 1..Len(d) |-> d[i].lat]

\* variant: empty arrays give the bounds 0 instead of raising
backgroundLayerDefaultBounds(lons, lats, net) ==
    LET maxLon == IF Len(lons) = 0 THEN 0 ELSE MaxOf(lons)
        maxLat == IF Len(lats) = 0 THEN 0 ELSE MaxOf(lats)
        minLon == IF Len(lons) = 0 THEN 0 ELSE MinOf(lons)
        minLat == IF Len(lats) = 0 THEN 0 ELSE MinOf(lats)
        m == [kind |-> "basemap", llcrnrlon |-> minLon, llcrnrlat |-> minLat,
              urcrnrlon |-> maxLon, urcrnrlat |-> maxLat]
    IN  IF net THEN [err |-> "none", m |-> m, requests |-> 1]
        ELSE [err |-> "URLError", m |-> m, requests |-> 1]

\* np.max / np.min of a zero-size array raise ValueError (line 42), before
\* Basemap(...) is constructed (line 48) and before arcgisimage (line 56),
\* which fails when the tile service cannot be reached (net = FALSE).
\* Result: the exception, the Basemap constructed (NoMap if none), and the
\* number of tile requests sent.
backgroundLayer(lons, lats, net) ==
    IF Len(lons) = 0 \/ Len(lats) = 0
    THEN [err |-> "ValueError", m |-> NoMap, requests |-> 0]
    ELSE LET maxLon == MaxOf(lons)
             maxLat == MaxOf(lats)
             minLon == MinOf(lons)
             minLat == MinOf(lats)
             m == [kind |-> "basemap",
                   llcrnrlon |-> minLon, llcrnrlat |-> minLat,
                   urcrnrlon |-> maxLon, urcrnrlat |-> maxLat]
         IN  IF net THEN [err |-> "none", m |-> m, requests |-> 1]
             ELSE [err |-> "URLError", m |-> m, requests |-> 1]

\* Basemap.shiftdata: longitudes are brought into the 360-degree window
\* around the map's central meridian; latitudes are returned as given.
shiftdata(m, lon) ==
    LET lon_0 == (m.llcrnrlon + m.urcrnrlon) \div 2
    IN  ((lon - lon_0 + 180) % 360) + lon_0 - 180

---------------------------------------------------------------------------
(* scatterPlot *)

featToCol ==
    ("SEX ABUSE" :> "r") @@ ("HOMICIDE" :> "b") @@
    ("GUN" :> "r") @@ ("KNIFE" :> "b") @@ ("OTHERS" :> "g")

Features == {None, "OFFENSE", "METHOD"}

\* 'scatter' + ('_' + feature.lower() if feature is not None else '') + '.png'
ScatterFile(feature) ==
    CASE feature = None -> "scatter.png"
      [] feature = "OFFENSE" -> "scatter_offense.png"
      [] feature = "METHOD" -> "scatter_method.png"

\* position (1-based) of the first row whose feature value is no key of
\* featToCol, 0 if every value is a key or no feature is given
FirstKeyError(d, feature) ==
    IF feature = None THEN 0
    ELSE LET bad == {i \in 1..Len(d) : d[i][feature] \notin DOMAIN featToCol}
         IN  IF bad = {} THEN 0 ELSE CHOOSE i \in bad : \A j \in bad : i <= j

\* variant: another default colour
DefaultColorsBlue(d) == [i \in 1..Len(d) |-> "b"]

\* ['r'] * len(df)
DefaultColors(d) == [i \in 1..Len(d) |-> "r"]

\* the first n elements of `colors` (line 82); the rows up to n hold keys
Colors(d, feature, n) ==
    IF feature = None THEN DefaultColors(d)
    ELSE [i \in 1..n |-> featToCol[d[i][feature]]]

\* Lines 86-88: shiftdata and the marker loop on the background b.m, for the
\* rows before the first missing key (bad), all rows if there is none.
ScatterMarkers(d, feature, bad, b) ==
    LET n == IF bad = 0 THEN Len(d) ELSE bad - 1
    IN  Only({[err |-> IF bad = 0 THEN "none" ELSE "KeyError",
               figure |-> TRUE,
               markers |-> [i \in 1..n |->
                              [row |-> d[i].idx,
                               lon |-> shiftdata(m, d[i].long),
                               lat |-> d[i].lat,
                               color |-> colors[i]]],
               m |-> m, requests |-> b.requests] :
              m \in {b.m}, colors \in {Colors(d, feature, n)}})

\* Lines 71-88: the colour list, the new figure, the background and the
\* marker loop.  With an eager map() a missing key raises at line 82, before
\* plt.figure(); with a lazy map() it raises inside the zip loop, after the
\* markers of the rows before it were drawn.
\* figure: whether plt.figure() was reached (a new, empty current figure).
DrawScatter(d, feature, lazy, net) ==
    Only({IF ~lazy /\ bad # 0
          THEN [err |-> "KeyError", figure |-> FALSE, markers |-> <<>>,
                m |-> NoMap, requests |-> 0]
          ELSE IF b.err # "none"
          THEN [err |-> b.err, figure |-> TRUE, markers |-> <<>>,
                m |-> b.m, requests |-> b.requests]
          ELSE ScatterMarkers(d, feature, bad, b) :
         bad \in {FirstKeyError(d, feature)},
         b \in {backgroundLayer(Lons(d), Lats(d), net)}})

\* variant: the colours are stored in the table as a new column
scatterPlotColorColumn(d, feature, lazy, net, dirExists) ==
    LET withColor == [i \in 1..Len(d) |->
                        [idx |-> d[i].idx, lat |-> d[i].lat,
                         long |-> d[i].long, OFFENSE |-> d[i].OFFENSE,
                         METHOD |-> d[i].METHOD,
                         START_DATE |-> d[i].START_DATE, color |-> "r"]]
    IN  Only({[err |-> r.err, df |-> withColor, figure |-> r.figure,
               markers |-> r.markers, m |-> r.m, requests |-> r.requests,
               dirExists |-> IF r.err = "none" THEN TRUE ELSE dirExists,
               written |-> IF r.err = "none" THEN {ScatterFile(feature)}
                           ELSE {}] :
              r \in {DrawScatter(d, feature, lazy, net)}})

\* scatterPlot(df, feature): the drawing, then the output (lines 105-108):
\* OUT_DIR is created if absent and the figure saved.  lons and lats are
\* copies (np.array) and only local names are rebound: the table the caller
\* passed is left as it was (field df).
scatterPlot(d, feature, lazy, net, dirExists) ==
    Only({[err |-> r.err, df |-> d, figure |-> r.figure,
           markers |-> r.markers, m |-> r.m, requests |-> r.requests,
           dirExists |-> IF r.err = "none" THEN TRUE ELSE dirExists,
           written |-> IF r.err = "none" THEN {ScatterFile(feature)}
                       ELSE {}] :
          r \in {DrawScatter(d, feature, lazy, net)}})

---------------------------------------------------------------------------
(* heatmap *)

NoDensity == [computed |-> FALSE]

\* np.linspace(lo, hi, 500)[k] = lo + k * (hi - lo) / 499, kept exact:
\* LinspaceLE(lo, hi, k, x) is  linspace(lo, hi, 500)[k] <= x
LinspaceLE(lo, hi, k, x) ==
    lo * (NUM_EDGES - 1) + k * (hi - lo) <= x * (NUM_EDGES - 1)

\* np.searchsorted(edges, x, side='right'): the number of edges <= x
searchsortedRight(lo, hi, x) ==
    Cardinality({k \in 0..(NUM_EDGES - 1) : LinspaceLE(lo, hi, k, x)})

\* histogramdd's bin number of a sample along one axis: searchsorted on the
\* right, a sample on the last edge moved into the last bin.  Bin numbers
\* 1..NUM_EDGES-1 are the grid; 0 and NUM_EDGES hold the samples outside.
BinNumber(lo, hi, x) ==
    LET c == searchsortedRight(lo, hi, x)
    IN  IF x = hi THEN c - 1 ELSE c

\* np.linspace(lo, hi, 500), kept as its two ends
linspace(lo, hi) == [lo |-> lo, hi |-> hi]

\* the histogram's core: the samples whose bin numbers on both axes are on
\* the grid, counted per cell (ybin, xbin: the bin number of each value)
CountCells(ys, xs, ybin, xbin) ==
    LET Grid == 1..(NUM_EDGES - 1)
    IN  Only({[c \in {<<ybin[ys[i]], xbin[xs[i]]>> : i \in inside} |->
                 Cardinality({i \in inside :
                                <<ybin[ys[i]], xbin[xs[i]]>> = c})] :
              inside \in {{i \in 1..Len(ys) :
                             ybin[ys[i]] \in Grid /\ xbin[xs[i]] \in Grid}}})

\* np.histogram2d(ys, xs, [ybins, xbins]): the count of every occupied cell
\* of the (NUM_EDGES-1) x (NUM_EDGES-1) grid; the other cells hold 0.
histogram2d(ys, xs, ybins, xbins) ==
    Only({CountCells(ys, xs, ybin, xbin) :
          ybin \in {[y \in Range(ys) |-> BinNumber(ybins.lo, ybins.hi, y)]},
          xbin \in {[x \in Range(xs) |-> BinNumber(xbins.lo, xbins.hi, x)]}})

\* variant: the samples handed to histogram2d in (lon, lat) order
DensitySwappedSamples(lons, lats) ==
    Only({[computed |-> TRUE,
           hist |-> histogram2d(lons, lats, lat_bins, lon_bins)] :
          lon_bins \in {linspace(MinOf(lons) - db, MaxOf(lons) + db)},
          lat_bins \in {linspace(MinOf(lats) - db, MaxOf(lats) + db)}})

\* Lines 124-128 on the coordinate arrays
Density(lons, lats) ==
    Only({[computed |-> TRUE,
           hist |-> histogram2d(lats, lons, lat_bins, lon_bins)] :
          lon_bins \in {linspace(MinOf(lons) - db, MaxOf(lons) + db)},
          lat_bins \in {linspace(MinOf(lats) - db, MaxOf(lats) + db)}})

\* heatmap(df): new figure, background, the bin edges padded by db beyond
\* min and max, the 2-D histogram of (lat, lon), then the output.
heatmap(d, net, dirExists) ==
    Only({IF b.err # "none"
          THEN [err |-> b.err, df |-> d, density |-> NoDensity, m |-> b.m,
                requests |-> b.requests, dirExists |-> dirExists,
                written |-> {}]
          ELSE [err |-> "none", df |-> d,
                density |-> Density(lons, lats),
                m |-> b.m, requests |-> b.requests, dirExists |-> TRUE,
                written |-> {"heatmap.png"}] :
         lons \in {Lons(d)}, lats \in {Lats(d)},
         b \in {backgroundLayer(Lons(d), Lats(d), net)}})

---------------------------------------------------------------------------
(* bokeh_scatter and the CustomJS callback *)

NoSource == [kind |-> "none"]

\* ColumnDataSource(data=dict(color=['rgb(255, 0, 0)'] * len(df), ...))
ColumnDataSource(d) ==
    [kind |-> "ColumnDataSource",
     color |-> [i \in 1..Len(d) |-> "rgb(255, 0, 0)"],
     lat |-> [i \in 1..Len(d) |-> d[i].lat],
     lon |-> [i \in 1..Len(d) |-> d[i].long],
     offense |-> [i \in 1..Len(d) |-> d[i].OFFENSE],
     weapon |-> [i \in 1..Len(d) |-> d[i].METHOD],
     start_date |-> [i \in 1..Len(d) |-> d[i].START_DATE]]

\* bokeh_scatter(df): output_file only records the path; save(l) opens
\* OUT_DIR + 'bokeh_scatter.html' for writing, which fails when OUT_DIR does
\* not exist: this function has no os.makedirs.
bokeh_scatter(d, dirExists) ==
    IF dirExists
    THEN [err |-> "none", df |-> d, source |-> ColumnDataSource(d),
          active |-> 0, written |-> {"bokeh_scatter.html"}]
    ELSE [err |-> "IOError", df |-> d, source |-> NoSource,
          active |-> 0, written |-> {}]

\* variant: case 1 leaves the markers of the other offenses as they are
callbackKeepOthers(data, option) ==
    LET n == Len(data.color)
    IN  CASE option = 0 ->
               [data EXCEPT !.color = [i \in 1..n |-> "rgb(255,0,0)"]]
          [] option = 1 ->
               [data EXCEPT !.color = [i \in 1..n |->
                  IF data.offense[i] = "SEX ABUSE" THEN "rgb(255,0,0)"
                  ELSE data.color[i]]]
          [] option = 2 ->
               [data EXCEPT !.color = [i \in 1..n |->
                  IF data.weapon[i] = "GUN" THEN "rgb(255,0,0)"
                  ELSE IF data.weapon[i] = "KNIFE" THEN "rgb(0,0,255)"
                  ELSE "rgb(0,255,0)"]]
          [] OTHER -> data

\* the CustomJS code: switch(option) over cb_obj.active, each case a loop
\* over data['color']
callback(data, option) ==
    LET n == Len(data.color)
    IN  CASE option = 0 ->
               [data EXCEPT !.color = [i \in 1..n |-> "rgb(255,0,0)"]]
          [] option = 1 ->
               [data EXCEPT !.color = [i \in 1..n |->
                  IF data.offense[i] = "SEX ABUSE" THEN "rgb(255,0,0)"
                  ELSE "rgb(0,0,255)"]]
          [] option = 2 ->
               [data EXCEPT !.color = [i \in 1..n |->
                  IF data.weapon[i] = "GUN" THEN "rgb(255,0,0)"
                  ELSE IF data.weapon[i] = "KNIFE" THEN "rgb(0,0,255)"
                  ELSE "rgb(0,255,0)"]]
          [] OTHER -> data

\* the three labels of the RadioButtonGroup
Options == 0..2

---------------------------------------------------------------------------
(* MAIN: the top-level statements, run in order; an uncaught exception ends
   the run *)

MAIN ==
    <<"load", "scatter", "scatter_offense", "scatter_method", "heatmap",
      "bokeh_scatter">>

ScatterStmt(feature) ==
    CASE feature = None -> "scatter"
      [] feature = "OFFENSE" -> "scatter_offense"
      [] feature = "METHOD" -> "scatter_method"

\* variant: exceptions are swallowed and the next statement runs
RunnableAfterError == todo # <<>>

\* the next statement runs only if no exception has ended the run
Runnable == err = "none" /\ todo # <<>>

Advance ==
    /\ done' = Append(done, Head(todo))
    /\ todo' = Tail(todo)

\* df = loadData()
LoadData ==
    /\ Runnable
    /\ Head(todo) = "load"
    /\ \E r \in {loadData(csv)} :
           /\ err' = r.err
           /\ df' = r.df
    /\ Advance
    /\ UNCHANGED <<csv, outDirExists, files, lazyMap, markers, bg,
                   tileRequests, density, source, active>>

\* scatterPlot(df), scatterPlot(df, 'OFFENSE'), scatterPlot(df, 'METHOD')
ScatterPlotStep(feature) ==
    /\ Runnable
    /\ Head(todo) = ScatterStmt(feature)
    /\ \E net \in BOOLEAN :
         \E r \in {scatterPlot(df, feature, lazyMap, net, outDirExists)} :
             /\ err' = r.err
             /\ df' = r.df
             /\ markers' = IF r.figure THEN r.markers ELSE markers
             /\ bg' = IF r.m = NoMap THEN bg ELSE r.m
             /\ tileRequests' = tileRequests + r.requests
             /\ outDirExists' = r.dirExists
             /\ files' = files \cup r.written
    /\ Advance
    /\ UNCHANGED <<csv, lazyMap, density, source, active>>

\* heatmap(df)
HeatmapStep ==
    /\ Runnable
    /\ Head(todo) = "heatmap"
    /\ \E net \in BOOLEAN :
         \E r \in {heatmap(df, net, outDirExists)} :
             /\ err' = r.err
             /\ df' = r.df
             /\ markers' = <<>>
             /\ density' = IF r.density.computed THEN r.density ELSE density
             /\ bg' = IF r.m = NoMap THEN bg ELSE r.m
             /\ tileRequests' = tileRequests + r.requests
             /\ outDirExists' = r.dirExists
             /\ files' = files \cup r.written
    /\ Advance
    /\ UNCHANGED <<csv, lazyMap, source, active>>

\* bokeh_scatter(df)
BokehScatterStep ==
    /\ Runnable
    /\ Head(todo) = "bokeh_scatter"
    /\ \E r \in {bokeh_scatter(df, outDirExists)} :
           /\ err' = r.err
           /\ df' = r.df
           /\ source' = IF r.err = "none" THEN r.source ELSE source
           /\ active' = IF r.err = "none" THEN r.active ELSE active
           /\ files' = files \cup r.written
    /\ Advance
    /\ UNCHANGED <<csv, outDirExists, lazyMap, markers, bg, tileRequests,
                   density>>

\* a click on the RadioButtonGroup of the saved document, in the browser
Select(option) ==
    /\ "bokeh_scatter.html" \in files
    /\ source # NoSource
    /\ active' = option
    /\ source' = callback(source, option)
    /\ UNCHANGED <<csv, df, todo, done, err, outDirExists, files, lazyMap,
                   markers, bg, tileRequests, density>>

Render ==
    \/ \E feature \in Features : ScatterPlotStep(feature)
    \/ HeatmapStep
    \/ BokehScatterStep
    \/ \E option \in Options : Select(option)

Next ==
    \/ LoadData
    \/ Render

---------------------------------------------------------------------------
(* Initial states *)

InitOutputs ==
    /\ done = <<>>
    /\ err = "none"
    /\ files = {}
    /\ markers = <<>>
    /\ bg = NoMap
    /\ tileRequests = 0
    /\ density = NoDensity
    /\ source = NoSource
    /\ active = 0
    /\ lazyMap \in BOOLEAN
    /\ outDirExists \in BOOLEAN

\* The script as run: a file of n rows whose contents repeat a palette of
\* three rows; no file at all; files too short for the two dropped positions.
MainContents ==
    {Content(0, 0, "HOMICIDE", "GUN"),
     Content(1, 2, "SEX ABUSE", "KNIFE"),
     Content(2, 1, "ARSON", "OTHERS")}

FileLengths ==
    {0, DROP_A + 1, DROP_B} \cup ((DROP_B + 1)..(DROP_B + 1 + MaxExtraRows))

PaletteFile(palette, n) ==
    File([p \in 1..n |-> Row(p - 1, palette[((p - 1) % 3) + 1])])

MainFiles ==
    {NoFile} \cup
    {PaletteFile(palette, n) :
       palette \in MainContents \X MainContents \X MainContents,
       n \in FileLengths}

InitMain ==
    /\ csv \in MainFiles
    /\ df = <<>>
    /\ todo = MAIN
    /\ InitOutputs

Spec == InitMain /\ [][Next]_vars

\* A renderer called on its own with a table of at most MaxRecs rows: either
\* the categories vary (coordinates fixed) or the coordinates vary
\* (categories fixed).  "ARSON" stands for a value that is no key of
\* featToCol.
OffenseValues == {"SEX ABUSE", "HOMICIDE", "OTHERS", "ARSON"}

MethodValues == {"GUN", "KNIFE", "OTHERS", "ARSON"}

CategoryContents ==
    {Content(0, 0, o, m) : o \in OffenseValues, m \in MethodValues}

CoordContents ==
    {Content(la, lo, "HOMICIDE", "GUN") : la \in 0..MaxCoord,
                                          lo \in 0..MaxCoord}

TablesOver(contents) ==
    UNION {{WithIndex(t) : t \in [1..n -> contents]} : n \in 0..MaxRecs}

RenderStmts ==
    {"scatter", "scatter_offense", "scatter_method", "heatmap",
     "bokeh_scatter"}

InitRender ==
    /\ csv = NoFile
    /\ df \in TablesOver(CategoryContents) \cup TablesOver(CoordContents)
    /\ todo \in {<<s>> : s \in RenderStmts}
    /\ InitOutputs

SpecRender == InitRender /\ [][Render]_vars

\* The five renderer calls in every order, on a table the lookup covers.
OrderContents ==
    {Content(0, 0, "HOMICIDE", "GUN"), Content(1, 2, "SEX ABUSE", "OTHERS")}

Orders ==
    {o \in [1..Cardinality(RenderStmts) -> RenderStmts] :
       \A i, j \in DOMAIN o : i # j => o[i] # o[j]}

InitOrder ==
    /\ csv = NoFile
    /\ df \in TablesOver(OrderContents)
    /\ todo \in Orders
    /\ InitOutputs

SpecOrder == InitOrder /\ [][Render]_vars

---------------------------------------------------------------------------
(* Colours: what the colour strings of the two renderers denote *)

\* matplotlib's single-letter colours, as 8-bit RGB ('g' is half green)
MplRGB(c) ==
    CASE c = "r" -> <<255, 0, 0>>
      [] c = "b" -> <<0, 0, 255>>
      [] c = "g" -> <<0, 128, 0>>

\* the browser's reading of the CSS colour strings of the bokeh document
CssRGB(c) ==
    CASE c = "rgb(255, 0, 0)" -> <<255, 0, 0>>
      [] c = "rgb(255,0,0)" -> <<255, 0, 0>>
      [] c = "rgb(0,0,255)" -> <<0, 0, 255>>
      [] c = "rgb(0,255,0)" -> <<0, 255, 0>>

\* the name of a pure red, green or blue of any brightness
ColourName(rgb) ==
    CASE rgb[1] > 0 /\ rgb[2] = 0 /\ rgb[3] = 0 -> "red"
      [] rgb[1] = 0 /\ rgb[2] > 0 /\ rgb[3] = 0 -> "green"
      [] rgb[1] = 0 /\ rgb[2] = 0 /\ rgb[3] > 0 -> "blue"
      [] OTHER -> "other"

---------------------------------------------------------------------------
(* Properties *)

Loaded == "load" \in Range(done)

RowOf(label) == CHOOSE r \in Range(df) : r.idx = label

StaticStmts == {"scatter", "scatter_offense", "scatter_method", "heatmap"}

FiveFiles ==
    {"scatter.png", "scatter_offense.png", "scatter_method.png",
     "heatmap.png", "bokeh_scatter.html"}

\* C1: once loadData has returned on a file of at least 759 rows, it raised
\* nothing, the table has the file's row count minus 2, the rows at
\* zero-based positions 222 and 758 are absent and every other row is there.
C1_LoadDropsTwoRows ==
    (Loaded /\ csv.exists /\ Len(csv.rows) >= 759) =>
        /\ done = <<"load">> => err = "none"
        /\ Len(df) = Len(csv.rows) - 2
        /\ Range(df) =
             {csv.rows[p + 1] : p \in (0..(Len(csv.rows) - 1)) \ {222, 758}}

C1_Witness ==
    /\ done = <<"load">>
    /\ csv.exists
    /\ Len(csv.rows) > 759
    /\ err = "none"
    /\ Len(df) = Len(csv.rows) - 2

\* C2: after scatterPlot(df, 'OFFENSE'), every marker drawn is red if its
\* row's offense is 'SEX ABUSE' and blue otherwise, and a table holding an
\* offense other than 'SEX ABUSE' and 'HOMICIDE' made the call raise, with
\* no marker drawn for such a row.
C2_OffenseRedElseBlueOrError ==
    done = <<"scatter_offense">> =>
        /\ \A k \in DOMAIN markers :
             ColourName(MplRGB(markers[k].color)) =
               IF RowOf(markers[k].row).OFFENSE = "SEX ABUSE"
               THEN "red" ELSE "blue"
        /\ (\E i \in DOMAIN df :
              df[i].OFFENSE \notin {"SEX ABUSE", "HOMICIDE"}) => err # "none"
        /\ \A k \in DOMAIN markers :
             RowOf(markers[k].row).OFFENSE \in {"SEX ABUSE", "HOMICIDE"}

\* the colour name the static rule gives a feature value it is defined for
StaticColourName(value) == ColourName(MplRGB(featToCol[value]))

\* C3: in the bokeh document, with option 1 selected every marker whose
\* offense the static lookup covers has the colour the static rule gives
\* it, with option 2 the same for the weapon, and with option 0 every
\* marker is red.
C3_CallbackMatchesStatic ==
    source # NoSource =>
        \A i \in DOMAIN source.color :
            LET shown == ColourName(CssRGB(source.color[i]))
            IN  /\ active = 0 => shown = "red"
                /\ (active = 1 /\ source.offense[i] \in DOMAIN featToCol) =>
                       shown = StaticColourName(source.offense[i])
                /\ (active = 2 /\ source.weapon[i] \in DOMAIN featToCol) =>
                       shown = StaticColourName(source.weapon[i])

RECURSIVE SumOver(_, _)
SumOver(f, cells) ==
    IF cells = {} THEN 0
    ELSE LET c == CHOOSE x \in cells : TRUE
         IN  f[c] + SumOver(f, cells \ {c})

\* C4: the counts of the histogram the heatmap computed lie on the 499x499
\* grid and sum to the number of records.
C4_HistogramSumsToRecords ==
    density.computed =>
        /\ DOMAIN density.hist \subseteq (1..499) \X (1..499)
        /\ SumOver(density.hist, DOMAIN density.hist) = Len(df)

C4_Witness ==
    /\ density.computed
    /\ Len(df) >= 2
    /\ Cardinality(DOMAIN density.hist) >= 2
    /\ \E c \in DOMAIN density.hist : c[1] # c[2]

\* C5: a static renderer called on an empty table (backgroundLayer gets
\* empty arrays) ends in ValueError with no Basemap constructed, no tile
\* requested and no file written.
C5_EmptyRaisesBeforeMap ==
    (Len(df) = 0 /\ done # <<>> /\ done[1] \in StaticStmts) =>
        /\ err = "ValueError"
        /\ bg = NoMap
        /\ tileRequests = 0
        /\ files = {}

C5_Witness ==
    /\ Len(df) = 0
    /\ done = <<"heatmap">>
    /\ err = "ValueError"

\* C6: in MAIN, once a statement has raised nothing more happens: no
\* statement is attempted, no file written; the failing statement itself
\* writes no file; and files written earlier are never removed.
C6_FailureEndsRun ==
    [][/\ err # "none" =>
            /\ todo' = todo
            /\ done' = done
            /\ files' = files
            /\ err' = err
       /\ (err = "none" /\ err' # "none") =>
            /\ files' = files
            /\ done' = Append(done, Head(todo))
       /\ files \subseteq files']_vars

C6_Witness ==
    /\ err = "KeyError"
    /\ done = <<"load", "scatter", "scatter_offense">>
    /\ files = {"scatter.png"}
    /\ todo # <<>>

\* C7: whatever the order of the five renderer calls and whether or not
\* OUT_DIR exists at the start, on a non-empty table the lookup covers and
\* with the tile service reachable, the run ends without an exception and
\* OUT_DIR holds exactly the five files; no file exists without OUT_DIR.
C7_AnyOrderFiveFiles ==
    /\ files # {} => outDirExists
    /\ ((todo = <<>> \/ err # "none") /\ Len(df) > 0 /\ err # "URLError") =>
           /\ err = "none"
           /\ files = FiveFiles

\* C8: after scatterPlot(df) every marker drawn is red, and when the call
\* returned there is exactly one marker per record, in table order.
C8_NoFeatureAllRed ==
    done = <<"scatter">> =>
        /\ \A k \in DOMAIN markers :
             ColourName(MplRGB(markers[k].color)) = "red"
        /\ err = "none" =>
             /\ Len(markers) = Len(df)
             /\ \A i \in DOMAIN df : markers[i].row = df[i].idx

C8_Witness ==
    /\ done = <<"scatter">>
    /\ err = "none"
    /\ Len(markers) >= 2

\* C9: after loadData has returned, no step changes the table.
C9_TableReadOnly ==
    [][Loaded => df' = df]_vars

C9_Witness ==
    /\ done = MAIN
    /\ err = "none"
    /\ Len(df) > 0
    /\ source # NoSource
    /\ density.computed

\* the colour option `option` stands for, given a record's offense and weapon
OptionRGB(option, offense, weapon) ==
    CASE option = 0 -> <<255, 0, 0>>
      [] option = 1 -> IF offense = "SEX ABUSE" THEN <<255, 0, 0>>
                       ELSE <<0, 0, 255>>
      [] option = 2 -> IF weapon = "GUN" THEN <<255, 0, 0>>
                       ELSE IF weapon = "KNIFE" THEN <<0, 0, 255>>
                       ELSE <<0, 255, 0>>

\* C10: in the bokeh document, after every step each marker's colour is the
\* one the selected option gives that record's offense and weapon, there is
\* one colour per record, the data columns are those of the table, and once
\* a selection has rewritten the colours, selecting the active option again
\* changes nothing.
C10_RecolourByLastOption ==
    [][source' # NoSource =>
         /\ Len(source'.color) = Len(df)
         /\ \A i \in DOMAIN source'.color :
              CssRGB(source'.color[i]) =
                OptionRGB(active', source'.offense[i], source'.weapon[i])
         /\ [source' EXCEPT !.color = <<>>]
              = [ColumnDataSource(df) EXCEPT !.color = <<>>]
         /\ (source # NoSource /\ source # ColumnDataSource(df)
               /\ active' = active) => source' = source]_vars

C10_Witness ==
    /\ source # NoSource
    /\ active = 1
    /\ \E i \in DOMAIN source.color :
         /\ source.weapon[i] = "OTHERS"
         /\ source.color[i] = "rgb(0,0,255)"
    /\ \E i \in DOMAIN source.color : source.color[i] = "rgb(255,0,0)"

====
